---- MODULE Spec2Model ----
(***************************************************************************)
(* The account record of apps/users/models.py (class CustomUser): its      *)
(* lockout fields, the row of table custom_user that save() writes, the    *)
(* model instances that requests hold in memory, and the clock read by     *)
(* timezone.now().                                                         *)
(*                                                                         *)
(* A DateTimeField that may be null is modelled as a set: {} is None and   *)
(* {t} is the timestamp t (minutes on the model's clock).                  *)
(***************************************************************************)
EXTENDS Integers, FiniteSets, Sequences, TLC

\* The clock runs from 0 to MaxTime.
MaxTime == 3
\* lock_account is called with durations from -1 to MaxDuration minutes.
MaxDuration == 2
\* increment_failed_logins is called while the instance's counter is below MaxFails.
MaxFails == 3
\* first_name, last_name and username are strings of at most MaxNameLen characters.
MaxNameLen == 2
\* The table custom_user holds at most MaxAccounts rows.
MaxAccounts == 3

\* The requests that each hold their own loaded instance of the one account.
Sessions == {"s1", "s2"}

Durations == (0 - 1)..MaxDuration

None == {}

VARIABLES
    db,     \* the stored row: failed_login_attempts, locked_until, is_active
    obj,    \* obj[s]: the fields of the instance session s holds in memory
    now,    \* timezone.now()
    ret,    \* the value returned by the last method call: None or {value}
    last,   \* history: the last method call (not a clock step)
    person, \* the identity and role fields of an instance the read-only methods are called on
    answer, \* the last read-only method called on person, and what it returned
    table,  \* the rows of custom_user, in order of insertion: username and email
    outcome \* how the last insertion into custom_user ended

vars == <<db, obj, now, ret, last, person, answer, table, outcome>>

\* The parts of the state each group of operations leaves alone.
lockout == <<db, obj, now, ret, last>>

profile == <<person, answer>>

store == <<table, outcome>>

\* The fields of CustomUser the lockout logic reads and writes, with their defaults.
NewAccount(active) ==
    [failed_login_attempts |-> 0, locked_until |-> None, is_active |-> active]

\* Variants of can_login with a plausible slip: the comparison taken as <=, and
\* the is_active test left out.
can_login_at_expiry(self, t) ==
    self.is_active /\ (self.locked_until = None \/ \A u \in self.locked_until : u <= t)

can_login_ignoring_active(self, t) ==
    self.locked_until = None \/ \A u \in self.locked_until : u < t

\* can_login(self): self.is_active and (self.locked_until is None or self.locked_until < timezone.now())
can_login(self, t) ==
    self.is_active /\ (self.locked_until = None \/ \A u \in self.locked_until : u < t)

\* is_account_locked(self): self.locked_until is not None and self.locked_until > timezone.now()
is_account_locked(self, t) ==
    self.locked_until # None /\ \E u \in self.locked_until : u > t

\* History of the calls: the method, the session, the duration argument, the
\* time of the call, how many times in a row that method was called on that
\* session (counted up to MaxFails), and whether nothing but that run of
\* calls has happened since the account was created.
Called(op, s, d) ==
    [op |-> op, s |-> s, d |-> d, at |-> now,
     n |-> IF last.op = op /\ last.s = s
           THEN (IF last.n < MaxFails THEN last.n + 1 ELSE last.n)
           ELSE 1,
     fromNew |-> last.op = "init" \/ (last.fromNew /\ last.op = op /\ last.s = s)]

\* ROLE_CHOICES: the role names of the system.
ROLE_CHOICES == {"Admin", "User", "Manager"}

\* The names of the groups an account is put in.
GroupNames == {"Admin", "Manager"}

\* A string is a sequence of characters; the characters used are a letter and
\* a blank.
Chars == {"j", " "}

Strings == UNION {[1..n -> Chars] : n \in 0..MaxNameLen}

\* str.strip(): the string without its leading and trailing whitespace.
RECURSIVE LStrip(_)
LStrip(str) ==
    IF str = <<>> THEN str
    ELSE IF Head(str) = " " THEN LStrip(Tail(str)) ELSE str

RECURSIVE RStrip(_)
RStrip(str) ==
    IF str = <<>> THEN str
    ELSE IF str[Len(str)] = " " THEN RStrip(SubSeq(str, 1, Len(str) - 1)) ELSE str

Strip(str) == RStrip(LStrip(str))

\* The instances the read-only methods are called on: is_superuser, the names
\* of the groups of the instance (self.groups), the role column, and the names.
Persons ==
    [is_superuser : BOOLEAN,
     groups : SUBSET GroupNames,
     role : {None, {"Admin"}},
     first_name : Strings,
     last_name : Strings,
     username : Strings]

NoPerson ==
    [is_superuser |-> FALSE, groups |-> {}, role |-> None,
     first_name |-> <<>>, last_name |-> <<>>, username |-> <<>>]

NoAnswer == [q |-> "none", arg |-> "", value |-> FALSE]

\* get_full_name(self): f"{self.first_name} {self.last_name}".strip()
get_full_name(self) == Strip(self.first_name \o <<" ">> \o self.last_name)

\* Variant of get_short_name with a plausible slip: the operands of `or` swapped.
get_short_name_username_first(self) ==
    IF self.username # <<>> THEN self.username ELSE self.first_name

\* get_short_name(self): self.first_name or self.username
get_short_name(self) ==
    IF self.first_name # <<>> THEN self.first_name ELSE self.username

\* Variant of has_role with a plausible slip: the role column is tested instead
\* of the groups.
has_role_by_role_column(self, role_name) == self.role = {role_name}

\* has_role(self, role_name): self.groups.filter(name=role_name).exists()
has_role(self, role_name) == \E g \in self.groups : g = role_name

\* is_admin(self): self.is_superuser or self.has_role('Admin')
is_admin(self) == self.is_superuser \/ has_role(self, "Admin")

ProfileIdle == person = NoPerson /\ answer = NoAnswer

StoreIdle == table = <<>> /\ outcome = "none"

LockoutIdle ==
    /\ db = NewAccount(TRUE)
    /\ obj = [s \in Sessions |-> NewAccount(TRUE)]
    /\ now = 0
    /\ ret = None
    /\ last = [op |-> "init", s |-> "s1", d |-> 0, at |-> 0, n |-> 0, fromNew |-> TRUE]

Init ==
    /\ \E active \in BOOLEAN :
          /\ db = NewAccount(active)
          /\ obj = [s \in Sessions |-> NewAccount(active)]
    /\ now = 0
    /\ ret = None
    /\ last = [op |-> "init", s |-> "s1", d |-> 0, at |-> 0, n |-> 0, fromNew |-> TRUE]
    /\ ProfileIdle
    /\ StoreIdle

\* A request fetches the account: its instance takes the stored row's fields.
Load(s) ==
    /\ obj' = [obj EXCEPT ![s] = db]
    /\ ret' = None
    /\ last' = Called("load", s, 0)
    /\ UNCHANGED <<db, now, profile, store>>

\* Variants of increment_failed_logins with a plausible slip: the count returned
\* is the one read before the increment; the counter is decremented.
increment_failed_logins_returns_old(s) ==
    /\ obj[s].failed_login_attempts < MaxFails
    /\ obj' = [obj EXCEPT ![s].failed_login_attempts = @ + 1]
    /\ db' = [db EXCEPT !.failed_login_attempts = obj'[s].failed_login_attempts]
    /\ ret' = {obj[s].failed_login_attempts}
    /\ last' = Called("increment_failed_logins", s, 0)
    /\ UNCHANGED <<now, profile, store>>

increment_failed_logins_decrements(s) ==
    /\ obj[s].failed_login_attempts < MaxFails
    /\ obj' = [obj EXCEPT ![s].failed_login_attempts = @ - 1]
    /\ db' = [db EXCEPT !.failed_login_attempts = obj'[s].failed_login_attempts]
    /\ ret' = {obj'[s].failed_login_attempts}
    /\ last' = Called("increment_failed_logins", s, 0)
    /\ UNCHANGED <<now, profile, store>>

\* Variant of increment_failed_logins with a plausible slip: the account is
\* locked by the call that brings the counter to the threshold.
increment_failed_logins_locks_at_threshold(s) ==
    /\ obj[s].failed_login_attempts < MaxFails
    /\ obj' = [obj EXCEPT ![s].failed_login_attempts = @ + 1,
                          ![s].locked_until =
                              IF obj[s].failed_login_attempts + 1 >= MaxFails
                              THEN {now + MaxDuration} ELSE @]
    /\ db' = [db EXCEPT !.failed_login_attempts = obj'[s].failed_login_attempts,
                        !.locked_until = obj'[s].locked_until]
    /\ ret' = {obj'[s].failed_login_attempts}
    /\ last' = Called("increment_failed_logins", s, 0)
    /\ UNCHANGED <<now, profile, store>>

\* increment_failed_logins(self): self.failed_login_attempts += 1, then
\* save(update_fields=['failed_login_attempts']) writes the instance's value of
\* that column to the row, then the instance's value is returned.
increment_failed_logins(s) ==
    /\ obj[s].failed_login_attempts < MaxFails
    /\ obj' = [obj EXCEPT ![s].failed_login_attempts = @ + 1]
    /\ db' = [db EXCEPT !.failed_login_attempts = obj'[s].failed_login_attempts]
    /\ ret' = {obj'[s].failed_login_attempts}
    /\ last' = Called("increment_failed_logins", s, 0)
    /\ UNCHANGED <<now, profile, store>>

\* Variants of reset_failed_logins with a plausible slip: update_fields names
\* the counter only, so the cleared lock is not written; the lock is "cleared"
\* by setting it to the current time instead of None.
reset_failed_logins_saves_counter_only(s) ==
    /\ obj' = [obj EXCEPT ![s].failed_login_attempts = 0, ![s].locked_until = None]
    /\ db' = [db EXCEPT !.failed_login_attempts = obj'[s].failed_login_attempts]
    /\ ret' = None
    /\ last' = Called("reset_failed_logins", s, 0)
    /\ UNCHANGED <<now, profile, store>>

reset_failed_logins_lock_to_now(s) ==
    /\ obj' = [obj EXCEPT ![s].failed_login_attempts = 0, ![s].locked_until = {now}]
    /\ db' = [db EXCEPT !.failed_login_attempts = obj'[s].failed_login_attempts,
                        !.locked_until = obj'[s].locked_until]
    /\ ret' = None
    /\ last' = Called("reset_failed_logins", s, 0)
    /\ UNCHANGED <<now, profile, store>>

\* Variant of reset_failed_logins with a plausible slip: a successful login also
\* marks the account active.
reset_failed_logins_reactivates(s) ==
    /\ obj' = [obj EXCEPT ![s].failed_login_attempts = 0, ![s].locked_until = None,
                          ![s].is_active = TRUE]
    /\ db' = [db EXCEPT !.failed_login_attempts = obj'[s].failed_login_attempts,
                        !.locked_until = obj'[s].locked_until,
                        !.is_active = obj'[s].is_active]
    /\ ret' = None
    /\ last' = Called("reset_failed_logins", s, 0)
    /\ UNCHANGED <<now, profile, store>>

\* reset_failed_logins(self): both fields are set on the instance, then one
\* save(update_fields=['failed_login_attempts', 'locked_until']) writes both
\* columns in a single UPDATE.
reset_failed_logins(s) ==
    /\ obj' = [obj EXCEPT ![s].failed_login_attempts = 0, ![s].locked_until = None]
    /\ db' = [db EXCEPT !.failed_login_attempts = obj'[s].failed_login_attempts,
                        !.locked_until = obj'[s].locked_until]
    /\ ret' = None
    /\ last' = Called("reset_failed_logins", s, 0)
    /\ UNCHANGED <<now, profile, store>>

\* Variant of lock_account with a plausible slip: a lock that is already set is
\* extended by the duration instead of being replaced.
lock_account_stacks(s, d) ==
    /\ obj' = [obj EXCEPT ![s].locked_until =
                  IF @ = None THEN {now + d} ELSE {u + d : u \in @}]
    /\ db' = [db EXCEPT !.locked_until = obj'[s].locked_until]
    /\ ret' = None
    /\ last' = Called("lock_account", s, d)
    /\ UNCHANGED <<now, profile, store>>

\* Variants of lock_account with a plausible slip: save() is called without
\* update_fields, so every column is written from the instance; locking also
\* sets the counter back to 0.
lock_account_saves_whole_record(s, d) ==
    /\ obj' = [obj EXCEPT ![s].locked_until = {now + d}]
    /\ db' = obj'[s]
    /\ ret' = None
    /\ last' = Called("lock_account", s, d)
    /\ UNCHANGED <<now, profile, store>>

lock_account_resets_counter(s, d) ==
    /\ obj' = [obj EXCEPT ![s].locked_until = {now + d}, ![s].failed_login_attempts = 0]
    /\ db' = [db EXCEPT !.locked_until = obj'[s].locked_until,
                        !.failed_login_attempts = obj'[s].failed_login_attempts]
    /\ ret' = None
    /\ last' = Called("lock_account", s, d)
    /\ UNCHANGED <<now, profile, store>>

\* lock_account(self, duration_minutes): locked_until = timezone.now() +
\* timedelta(minutes=duration_minutes) for any duration (there is no check of
\* its sign), then save(update_fields=['locked_until']).
lock_account(s, d) ==
    /\ obj' = [obj EXCEPT ![s].locked_until = {now + d}]
    /\ db' = [db EXCEPT !.locked_until = obj'[s].locked_until]
    /\ ret' = None
    /\ last' = Called("lock_account", s, d)
    /\ UNCHANGED <<now, profile, store>>

\* Time passes: the next timezone.now() is one minute later.
Tick ==
    /\ now < MaxTime
    /\ now' = now + 1
    /\ UNCHANGED <<db, obj, ret, last, profile, store>>

Next ==
    \/ \E s \in Sessions : Load(s)
    \/ \E s \in Sessions : increment_failed_logins(s)
    \/ \E s \in Sessions : reset_failed_logins(s)
    \/ \E s \in Sessions, d \in Durations : lock_account(s, d)
    \/ Tick

Spec == Init /\ [][Next]_vars

(***************************************************************************)
(* The read-only methods, called on an instance with any names, groups,    *)
(* role and superuser flag.                                                *)
(***************************************************************************)
InitProfile ==
    /\ LockoutIdle
    /\ StoreIdle
    /\ person \in Persons
    /\ answer = NoAnswer

\* is_admin() is called on the instance.
CallIsAdmin ==
    /\ answer' = [q |-> "is_admin", arg |-> "", value |-> is_admin(person)]
    /\ UNCHANGED <<person, lockout, store>>

\* has_role(role_name) is called on the instance.
CallHasRole(role_name) ==
    /\ answer' = [q |-> "has_role", arg |-> role_name,
                  value |-> has_role(person, role_name)]
    /\ UNCHANGED <<person, lockout, store>>

\* get_full_name() is called on the instance.
CallGetFullName ==
    /\ answer' = [q |-> "get_full_name", arg |-> "", value |-> get_full_name(person)]
    /\ UNCHANGED <<person, lockout, store>>

\* get_short_name() is called on the instance.
CallGetShortName ==
    /\ answer' = [q |-> "get_short_name", arg |-> "", value |-> get_short_name(person)]
    /\ UNCHANGED <<person, lockout, store>>

NextProfile ==
    \/ CallIsAdmin
    \/ \E role_name \in ROLE_CHOICES : CallHasRole(role_name)
    \/ CallGetFullName
    \/ CallGetShortName

SpecProfile == InitProfile /\ [][NextProfile]_vars

(***************************************************************************)
(* The table custom_user: rows are inserted with a username and an email.  *)
(* email is declared unique=True; the username field of the class, which   *)
(* replaces the one inherited from AbstractUser, declares no uniqueness.   *)
(***************************************************************************)
Usernames == {"alice", "bob", "carol"}

Emails == {"a@x.org", "b@x.org", "c@x.org"}

InitStore ==
    /\ LockoutIdle
    /\ ProfileIdle
    /\ StoreIdle

\* A row is inserted: the insertion fails with IntegrityError when a stored
\* row has the same email, and succeeds otherwise.
Create(username, email) ==
    /\ Len(table) < MaxAccounts
    /\ IF \E i \in 1..Len(table) : table[i].email = email
       THEN table' = table /\ outcome' = "IntegrityError"
       ELSE /\ table' = Append(table, [username |-> username, email |-> email])
            /\ outcome' = "created"
    /\ UNCHANGED <<lockout, profile>>

NextStore == \E username \in Usernames, email \in Emails : Create(username, email)

SpecStore == InitStore /\ [][NextStore]_vars

(***************************************************************************)
(* Properties.  self(last) is the instance the last method was called on;  *)
(* since a clock step leaves last unchanged, a property stated through     *)
(* last speaks of the state right after that call and of every state the   *)
(* clock alone then leads to.                                              *)
(***************************************************************************)
Target == obj[last.s]

Expiry == last.at + last.d

LockedForPositive ==
    last.op = "lock_account" /\ last.d > 0 /\ Target.is_active

\* C1 (as stated): after lock_account(d), d > 0, on an active account at t0,
\* is_account_locked() is true and can_login() is false at every clock value
\* up to and including t0+d, and past t0+d is_account_locked() is false and
\* can_login() is true, with no further call.
C1_LockedUntilPastExpiry ==
    LockedForPositive =>
        /\ (now <= Expiry => is_account_locked(Target, now) /\ ~can_login(Target, now))
        /\ (now > Expiry => ~is_account_locked(Target, now) /\ can_login(Target, now))

\* C1 (amended): after lock_account(d), d > 0, on an active account at t0,
\* is_account_locked() is true while the clock is before t0+d and false from
\* t0+d on; can_login() is false while the clock is at or before t0+d and true
\* once it is past t0+d; no further call is needed for either to flip.
C1_LockExpiresByClock ==
    LockedForPositive =>
        /\ (now < Expiry => is_account_locked(Target, now) /\ ~can_login(Target, now))
        /\ (now = Expiry => ~is_account_locked(Target, now) /\ ~can_login(Target, now))
        /\ (now > Expiry => ~is_account_locked(Target, now) /\ can_login(Target, now))

C1_Witness ==
    /\ LockedForPositive
    /\ now > Expiry
    /\ can_login(Target, now)
    /\ ~is_account_locked(Target, now)

\* C2: can_login() is false whenever is_active is false, for the stored row and
\* for every loaded instance, whatever locked_until and failed_login_attempts are.
C2_InactiveCannotLogin ==
    /\ ~db.is_active => ~can_login(db, now)
    /\ \A s \in Sessions : ~obj[s].is_active => ~can_login(obj[s], now)

C2_Witness ==
    \E s \in Sessions :
        /\ ~obj[s].is_active
        /\ obj[s].failed_login_attempts > 0
        /\ \E u \in obj[s].locked_until : u < now
        /\ \E u \in db.locked_until : u > now

\* C3: right after reset_failed_logins(), the instance and the stored row both
\* have failed_login_attempts = 0 and locked_until = None: the row never shows
\* one of the two reset and the other not.
C3_ResetClearsBoth ==
    last.op = "reset_failed_logins" =>
        /\ Target.failed_login_attempts = 0
        /\ Target.locked_until = None
        /\ db.failed_login_attempts = 0
        /\ db.locked_until = None

C3_Witness ==
    /\ last.op = "reset_failed_logins"
    /\ db.failed_login_attempts = 0
    /\ db.locked_until = None
    /\ \E s \in Sessions :
          /\ obj[s].failed_login_attempts > 0
          /\ is_account_locked(obj[s], now)

\* C4: n calls of increment_failed_logins() in sequence on a new account leave
\* failed_login_attempts = n on the instance and in the row, the k-th call
\* returning k; reset_failed_logins() leaves the counter at 0 whatever it was.
C4_CountsCalls ==
    /\ last.op = "init" =>
          db.failed_login_attempts = 0
          /\ \A s \in Sessions : obj[s].failed_login_attempts = 0
    /\ (last.op = "increment_failed_logins" /\ last.fromNew) =>
          /\ Target.failed_login_attempts = last.n
          /\ db.failed_login_attempts = last.n
          /\ ret = {last.n}
    /\ last.op = "reset_failed_logins" =>
          Target.failed_login_attempts = 0 /\ db.failed_login_attempts = 0

C4_Witness ==
    /\ last.op = "increment_failed_logins"
    /\ last.fromNew
    /\ last.n >= 3
    /\ ret = {last.n}

\* C5: no increment is lost: every increment_failed_logins() call on an active
\* account, made from whichever loaded instance, raises the stored failed_login_attempts by one,
\* so k calls leave it at its initial value plus k.
C5_NoLostIncrement ==
    [][\A s \in Sessions :
          (obj[s].is_active /\ increment_failed_logins(s)) =>
              db'.failed_login_attempts = db.failed_login_attempts + 1]_vars

\* C6: lock_account(d) with d <= 0 is rejected and changes no field of the
\* instance or of the row.
C6_NonPositiveDurationRejected ==
    [][\A s \in Sessions, d \in Durations :
          (d <= 0 /\ lock_account(s, d)) => (obj' = obj /\ db' = db)]_vars

\* C7: right after lock_account(d) called at time t, locked_until = t + d on the
\* instance and in the row, whatever it was before; a second call with the same
\* d at the same time changes nothing.
C7_Overwritten ==
    last.op = "lock_account" =>
        Target.locked_until = {last.at + last.d} /\ db.locked_until = {last.at + last.d}

C7_SameCallAgain ==
    \A s \in Sessions, d \in Durations :
        (/\ last.op = "lock_account" /\ last.s = s /\ last.d = d /\ last.at = now
         /\ lock_account(s, d))
        => (obj' = obj /\ db' = db)

C7_LockOverwrites == []C7_Overwritten /\ [][C7_SameCallAgain]_vars

C7_Witness ==
    /\ last.op = "lock_account"
    /\ last.n >= 2
    /\ last.d > 0
    /\ \E s \in Sessions : \E u \in obj[s].locked_until : u > last.at + last.d

\* C8: reset_failed_logins() called again right after reset_failed_logins() on
\* the same instance changes no field of the instance or of the row, which stay
\* at failed_login_attempts = 0 and locked_until = None.
C8_ResetIdempotent ==
    [][\A s \in Sessions :
          (last.op = "reset_failed_logins" /\ last.s = s /\ reset_failed_logins(s))
          => /\ obj' = obj /\ db' = db
             /\ obj'[s].failed_login_attempts = 0 /\ obj'[s].locked_until = None
             /\ db'.failed_login_attempts = 0 /\ db'.locked_until = None]_vars

C8_Witness ==
    /\ last.op = "reset_failed_logins"
    /\ last.n >= 2
    /\ now > last.at

\* C9: for an active account locked by lock_account(d), d > 0, at time t0,
\* can_login() is false at every time t0 <= t < locked_until and true at every
\* time t >= locked_until, the instant t = locked_until itself included.
C9_RefusedExactlyInWindow ==
    LockedForPositive =>
        /\ Target.locked_until = {Expiry}
        /\ (now < Expiry => ~can_login(Target, now))
        /\ (now >= Expiry => can_login(Target, now))

\* C10: failed_login_attempts is never negative, in the row or in any instance.
C10_CounterNonNegative ==
    /\ db.failed_login_attempts >= 0
    /\ \A s \in Sessions : obj[s].failed_login_attempts >= 0

C10_Witness ==
    /\ last.op = "reset_failed_logins"
    /\ db.failed_login_attempts = 0
    /\ now > 0
    /\ \E s \in Sessions :
          obj[s].failed_login_attempts >= 2 /\ obj[s].locked_until # None

\* C11: is_admin() returns is_superuser OR membership of the group "Admin",
\* for every combination of the flag and the groups (and whatever the role
\* column holds); has_role(name) returns a boolean, TRUE exactly when the
\* instance is in a group of that name.
C11_IsAdminIsSuperuserOrAdminRole ==
    /\ answer.q = "is_admin" =>
          answer.value = (person.is_superuser \/ "Admin" \in person.groups)
    /\ answer.q = "has_role" =>
          /\ answer.value \in BOOLEAN
          /\ answer.value = (answer.arg \in person.groups)

C11_Witness ==
    /\ answer.q = "is_admin"
    /\ ~person.is_superuser
    /\ person.groups = {"Admin"}
    /\ person.role = None
    /\ answer.value = TRUE

\* r is str without its leading and trailing blanks, stated without computing it.
Blanks(n) == [i \in 1..n |-> " "]

IsTrimOf(r, str) ==
    /\ r = <<>> \/ (Head(r) # " " /\ r[Len(r)] # " ")
    /\ \E i, j \in 0..Len(str) : str = Blanks(i) \o r \o Blanks(j)

Pieces(str) == {SubSeq(str, a, b) : a \in 1..(Len(str) + 1), b \in 0..Len(str)}

FirstNonEmpty(candidates) ==
    IF \A i \in 1..Len(candidates) : candidates[i] = <<>>
    THEN <<>>
    ELSE candidates[CHOOSE i \in 1..Len(candidates) :
                        /\ candidates[i] # <<>>
                        /\ \A k \in 1..(i - 1) : candidates[k] = <<>>]

\* The display name as claimed, for the names of p: the first non-empty of
\* first_name + " " + last_name trimmed, then first_name, then username.
IsDisplayNameOf(v, p) ==
    \E full \in Pieces(p.first_name \o <<" ">> \o p.last_name) :
        /\ IsTrimOf(full, p.first_name \o <<" ">> \o p.last_name)
        /\ v = FirstNonEmpty(<<full, p.first_name, p.username>>)

\* C12 (as stated): when a name method is called, one of the two name methods
\* of the class is the display name: on every instance it returns the first non-empty of first_name + " " +
\* last_name trimmed, then first_name, then username, so that with both names
\* empty and the username "j" it returns "j", never the empty string.
\* (get_full_name fails it on first_name = "", last_name = "", username = "j",
\* where it returns ""; get_short_name fails it on first_name = "j",
\* last_name = "j", where it returns "j" and not "j j".)
C12_SomeMethodIsDisplayName ==
    answer.q \in {"get_full_name", "get_short_name"} =>
        \/ \A p \in Persons : IsDisplayNameOf(get_full_name(p), p)
        \/ \A p \in Persons : IsDisplayNameOf(get_short_name(p), p)

\* C12 (amended): get_full_name() returns first_name + " " + last_name trimmed
\* and has no fallback: it is the empty string when both names are blank,
\* whatever the username; get_short_name() returns first_name when it is not
\* empty and the username otherwise, and never the full name; with both names
\* empty and the username "j", get_short_name() returns "j" and
\* get_full_name() returns the empty string.
C12_NameMethods ==
    /\ answer.q = "get_full_name" =>
          /\ IsTrimOf(answer.value, person.first_name \o <<" ">> \o person.last_name)
          /\ (\A i \in 1..Len(person.first_name) : person.first_name[i] = " ")
             /\ (\A i \in 1..Len(person.last_name) : person.last_name[i] = " ")
             => answer.value = <<>>
    /\ answer.q = "get_short_name" =>
          /\ answer.value = FirstNonEmpty(<<person.first_name, person.username>>)
          /\ (person.first_name = <<>> /\ person.last_name = <<>>)
             => answer.value = person.username

C12_Witness ==
    /\ answer.q = "get_full_name"
    /\ person.first_name = <<>>
    /\ person.last_name = <<>>
    /\ person.username = <<"j">>
    /\ answer.value = <<>>

\* C13: no two distinct rows of custom_user have the same username and no two
\* have the same email: an insertion repeating a stored username or a stored
\* email is rejected.
C13_UniqueUsernameAndEmail ==
    \A i, k \in 1..Len(table) :
        i # k => (table[i].username # table[k].username /\ table[i].email # table[k].email)

\* C14: increment_failed_logins() changes failed_login_attempts of the instance
\* and of the row and nothing else: locked_until and is_active of both, and the
\* other instances, are as before, so can_login() and is_account_locked()
\* answer the same right before and right after the call.
C14_Frame ==
    \A s \in Sessions :
        increment_failed_logins(s) =>
            /\ obj'[s].locked_until = obj[s].locked_until
            /\ obj'[s].is_active = obj[s].is_active
            /\ db'.locked_until = db.locked_until
            /\ db'.is_active = db.is_active
            /\ \A o \in Sessions \ {s} : obj'[o] = obj[o]
            /\ can_login(obj'[s], now') = can_login(obj[s], now)
            /\ is_account_locked(obj'[s], now') = is_account_locked(obj[s], now)
            /\ can_login(db', now') = can_login(db, now)
            /\ is_account_locked(db', now') = is_account_locked(db, now)

C14_IncrementOnlyCounts == [][C14_Frame]_vars

C14_Witness ==
    /\ last.op = "increment_failed_logins"
    /\ Target.failed_login_attempts = MaxFails
    /\ db.failed_login_attempts = MaxFails
    /\ can_login(Target, now)
    /\ ~is_account_locked(Target, now)

\* C15: a reset_failed_logins() leaves the stored counter at 0, and an
\* increment_failed_logins() made right after another request's reset, from an
\* instance loaded before that reset, leaves it at 1: never at a value
\* computed from the counter read before the reset.
C15_Serial ==
    \A s \in Sessions :
        /\ reset_failed_logins(s) => db'.failed_login_attempts = 0
        /\ (/\ last.op = "reset_failed_logins"
            /\ last.s # s
            /\ obj[s].is_active
            /\ increment_failed_logins(s))
           => db'.failed_login_attempts = 1

C15_IncrementAndResetSerialized == [][C15_Serial]_vars

\* C16: increment_failed_logins() writes only failed_login_attempts to the row
\* and lock_account() writes only locked_until, each from its own instance,
\* however stale: after the two calls in either order the row has the new
\* locked_until and the incremented counter.
C16_Frame ==
    /\ \A s \in Sessions :
          increment_failed_logins(s) =>
              /\ db'.failed_login_attempts = obj[s].failed_login_attempts + 1
              /\ db'.locked_until = db.locked_until
              /\ db'.is_active = db.is_active
    /\ \A s \in Sessions, d \in Durations :
          lock_account(s, d) =>
              /\ db'.locked_until = {now + d}
              /\ db'.failed_login_attempts = db.failed_login_attempts
              /\ db'.is_active = db.is_active

C16_WritesOnlyChangedFields == [][C16_Frame]_vars

C16_Witness ==
    /\ last.op = "lock_account"
    /\ db.locked_until = {Expiry}
    /\ db.failed_login_attempts > Target.failed_login_attempts
    /\ \E s \in Sessions : obj[s].locked_until # db.locked_until

\* C17: no method and no clock step changes is_active, of the row or of an
\* instance; an instance that is inactive cannot log in in the next state
\* either.
C17_Step ==
    /\ db'.is_active = db.is_active
    /\ \A s \in Sessions :
          /\ obj'[s].is_active = obj[s].is_active
          /\ ~obj[s].is_active => ~can_login(obj'[s], now')

C17_DeactivationIsTerminal == [][C17_Step]_vars

C17_Witness ==
    /\ ~db.is_active
    /\ last.op = "reset_failed_logins"
    /\ last.n >= 2
    /\ now > 0
    /\ \A s \in Sessions : ~can_login(obj[s], now)

\* C18: is_account_locked() implies not can_login(), in every state and for
\* every instance; and for an active account locked by lock_account(d), d > 0,
\* can_login() is the negation of is_account_locked() at every clock value.
C18_LockedExcludesLogin ==
    /\ \A s \in Sessions : is_account_locked(obj[s], now) => ~can_login(obj[s], now)
    /\ is_account_locked(db, now) => ~can_login(db, now)
    /\ LockedForPositive => (can_login(Target, now) = ~is_account_locked(Target, now))

\* C19: a clock step changes no field of the row or of an instance; the stored
\* locked_until goes from set to None, and the stored counter from positive to
\* 0, only in a reset_failed_logins() call; an increment adds 1 to the
\* instance's counter whether or not a lock has expired; and after a lock has
\* expired locked_until still holds its past value.
C19_Step ==
    /\ now' # now => (db' = db /\ obj' = obj)
    /\ ((db.locked_until # None /\ db'.locked_until = None)
        \/ (db.failed_login_attempts > 0 /\ db'.failed_login_attempts = 0))
       => \E s \in Sessions : reset_failed_logins(s)
    /\ \A s \in Sessions :
          increment_failed_logins(s) =>
              obj'[s].failed_login_attempts = obj[s].failed_login_attempts + 1

C19_Expired ==
    (LockedForPositive /\ now > Expiry) =>
        (Target.locked_until = {Expiry} /\ db.locked_until = {Expiry})

C19_OnlyResetClears == []C19_Expired /\ [][C19_Step]_vars

C19_Witness ==
    /\ LockedForPositive
    /\ now > Expiry
    /\ db.locked_until = {Expiry}
    /\ db.failed_login_attempts >= 2
    /\ Target.failed_login_attempts >= 2
====
